---- MODULE Spec2Model ----
(***************************************************************************)
(* A model of copper (glowsquid-launcher/minecraft-rs): the versioned      *)
(* client manifest resolver and its write path (src/src/assets/client.rs), *)
(* the download of a version's manifest (src/src/assets/version.rs) and    *)
(* the launch argument resolution of the Launcher (src/src/launcher.rs).   *)
(*                                                                         *)
(* Representation.                                                         *)
(*  - Option<T>: None is <<>>, Some(x) is <<x>>.                           *)
(*  - A Rust String that is only compared (os name, arch, version) is a    *)
(*    TLA+ string.                                                         *)
(*  - A Rust String that is substituted into or joined is a sequence of    *)
(*    atoms; an atom is a placeholder token ("${auth_uuid}"), a single     *)
(*    separator character (" ", ":", "_") or a chunk of other characters.  *)
(*    str::replace of a one-atom pattern is modelled atom by atom.         *)
(*  - A panic (panic!, todo!) is the outcome "panic" of the call.          *)
(***************************************************************************)
EXTENDS Naturals, Integers, Sequences, FiniteSets, TLC

VARIABLES
    response,        \* what the request of Version::download came back with
    value,           \* the serde_json::Value handed to Manifest::from_value
    parsed,          \* what Manifest::from_value returned
    serialized,      \* what Manifest::serialize returned for that manifest
    reparsed,        \* what Manifest::from_value returned for that string
    java_major,      \* what Manifest::java_major_version returned
    launcher,        \* the Launcher's fields
    host,            \* the build target (cfg!) and the host's answers
    manifest,        \* the client::Manifest handed to the Launcher
    game_rule,       \* the client::GameRule handed to minecraft_rule_passes
    jvm_rule,        \* the client::JvmRule's rule handed to java_rule_passes
    passes,          \* outcome of the last rule evaluation
    minecraft_args,  \* outcome of Launcher::parse_minecraft_args
    jvm_args,        \* outcome of Launcher::parse_jvm_args
    pc,              \* the call the caller makes
    oauth_code,      \* the OauthCode handed to get_ms_access_token
    csrf,            \* the secret of the CsrfToken handed to it
    ms_token,        \* what get_ms_access_token returned
    xbox_live_response,  \* the XboxLiveResponse get_minecraft_token got
    xsts_response,   \* the XstsResponse get_minecraft_token got
    minecraft_token, \* what get_minecraft_token returned
    requests,        \* the requests sent so far, in the order sent
    auth_pc          \* the request an authentication call awaits the reply to

\* the variables of the manifest and launcher calls
call_vars ==
    <<response, value, parsed, serialized, reparsed, java_major, launcher, host,
      manifest, game_rule, jvm_rule, passes, minecraft_args, jvm_args, pc>>

\* the variables of the authentication calls
auth_vars ==
    <<oauth_code, csrf, ms_token, xbox_live_response, xsts_response,
      minecraft_token, requests, auth_pc>>

vars == <<call_vars, auth_vars>>

None == <<>>
Some(x) == <<x>>

(***************************************************************************)
(* Bounds of the model.                                                    *)
(***************************************************************************)
\* how many of the keys a full document carries may be left out
MaxMissing == 2
\* how many libraries a document lists
MaxLibs == 1
\* how many rules guard one argument
MaxRules == 2
\* how many arguments a game or jvm argument list holds
MaxArgs == 3
\* how many xui claims a response of Xbox Live or XSTS carries
MaxClaims == 2

(***************************************************************************)
(* The manifest documents: which keys a JSON document carries.  serde      *)
(* ignores unknown keys, takes a missing Option field as None and rejects  *)
(* a document that lacks a required field.                                 *)
(***************************************************************************)
TopKeys ==
    {"arguments", "assetIndex", "assets", "complianceLevel", "downloads", "id",
     "javaVersion", "libraries", "logging", "mainClass", "minecraftArguments",
     "minimumLauncherVersion", "releaseTime", "time", "type"}

DownloadKeys ==
    {"client", "client_mappings", "server", "server_mappings", "windows_server"}

ClassifierKeys == {"natives-linux", "natives-osx"}

\* one entry of "libraries": its downloads.artifact and downloads.classifiers
LibraryShapes ==
    [artifact : BOOLEAN,
     classifiers : {None} \cup {Some(c) : c \in SUBSET ClassifierKeys}]

SeqsUpTo(S, n) == UNION {[1..k -> S] : k \in 0..n}

RECURSIVE SubsetsUpTo(_, _)
\* the subsets of S of at most n elements
SubsetsUpTo(S, n) ==
    IF n = 0 THEN {{}}
    ELSE LET smaller == SubsetsUpTo(S, n - 1)
         IN  smaller \cup {p \cup {x} : p \in smaller, x \in S}

\* the values of javaVersion.majorVersion the documents carry
JavaMajorVersions == {8, 17}

\* the documents: a full document less at most MaxMissing of its keys, with
\* the majorVersion of its javaVersion if it has the key
Documents ==
    {[keys |-> TopKeys \ missing, downloads |-> DownloadKeys \ missing,
      libraries |-> libs,
      java_version |-> IF "javaVersion" \in missing THEN None ELSE Some(j)] :
        missing \in SubsetsUpTo(TopKeys \cup DownloadKeys, MaxMissing),
        libs \in SeqsUpTo(LibraryShapes, MaxLibs),
        j \in JavaMajorVersions}

\* V1Downloads / V3Downloads / V4Downloads
V1Downloads(d) == {"client", "server", "windows_server"} \subseteq d.downloads
V3Downloads(d) == {"client", "server"} \subseteq d.downloads
V4Downloads(d) ==
    {"client", "client_mappings", "server", "server_mappings"} \subseteq d.downloads

\* PurpleClassifiers: natives_osx is not an Option
PurpleClassifiers(c) == "natives-osx" \in c
\* V1Library and V2Library (PurpleDownloads, FluffyDownloads)
V1Library(l) ==
    l.classifiers # None => PurpleClassifiers(l.classifiers[1])
\* V3Library .. V6Library (TentacledDownloads .. IndecentDownloads):
\* artifact is not an Option, every classifier is
V3Library(l) == l.artifact

V1Manifest(d) ==
    /\ {"assetIndex", "assets", "downloads", "id", "libraries", "mainClass",
        "minecraftArguments", "minimumLauncherVersion", "releaseTime", "time",
        "type"} \subseteq d.keys
    /\ V1Downloads(d)
    /\ \A i \in 1..Len(d.libraries) : V1Library(d.libraries[i])

V2Manifest(d) ==
    /\ {"assetIndex", "assets", "complianceLevel", "downloads", "id",
        "javaVersion", "libraries", "logging", "mainClass", "minecraftArguments",
        "minimumLauncherVersion", "releaseTime", "time", "type"} \subseteq d.keys
    /\ V1Downloads(d)
    /\ \A i \in 1..Len(d.libraries) : V1Library(d.libraries[i])

\* the keys V3Manifest .. V6Manifest all require
StructuredKeys ==
    {"arguments", "assetIndex", "assets", "complianceLevel", "downloads", "id",
     "javaVersion", "libraries", "logging", "mainClass",
     "minimumLauncherVersion", "releaseTime", "time", "type"}

V3Manifest(d) ==
    /\ StructuredKeys \subseteq d.keys
    /\ V3Downloads(d)
    /\ \A i \in 1..Len(d.libraries) : V3Library(d.libraries[i])

V4Manifest(d) ==
    /\ StructuredKeys \subseteq d.keys
    /\ V4Downloads(d)
    /\ \A i \in 1..Len(d.libraries) : V3Library(d.libraries[i])

V5Manifest(d) ==
    /\ StructuredKeys \subseteq d.keys
    /\ V4Downloads(d)
    /\ \A i \in 1..Len(d.libraries) : V3Library(d.libraries[i])

V6Manifest(d) ==
    /\ StructuredKeys \subseteq d.keys
    /\ V4Downloads(d)
    /\ \A i \in 1..Len(d.libraries) : V3Library(d.libraries[i])

\* the fields of VkManifest with a java_version in V1Manifest
Fields_java_version_in_V1(k) ==
    CASE k = 1 ->
            {"assetIndex", "assets", "downloads", "id", "javaVersion",
             "libraries", "mainClass", "minecraftArguments",
             "minimumLauncherVersion", "releaseTime", "time", "type"}
      [] k = 2 ->
            {"assetIndex", "assets", "complianceLevel", "downloads", "id",
             "javaVersion", "libraries", "logging", "mainClass",
             "minecraftArguments", "minimumLauncherVersion", "releaseTime",
             "time", "type"}
      [] OTHER ->
            {"arguments", "assetIndex", "assets", "complianceLevel",
             "downloads", "id", "javaVersion", "libraries", "logging",
             "mainClass", "minimumLauncherVersion", "releaseTime", "time",
             "type"}

\* the fields of VkManifest, of its downloads and of the classifiers of its
\* libraries, by their keys
Fields(k) ==
    CASE k = 1 ->
            {"assetIndex", "assets", "downloads", "id", "libraries", "mainClass",
             "minecraftArguments", "minimumLauncherVersion", "releaseTime",
             "time", "type"}
      [] k = 2 ->
            {"assetIndex", "assets", "complianceLevel", "downloads", "id",
             "javaVersion", "libraries", "logging", "mainClass",
             "minecraftArguments", "minimumLauncherVersion", "releaseTime",
             "time", "type"}
      [] OTHER -> StructuredKeys
DownloadFields(k) ==
    CASE k \in {1, 2} -> {"client", "server", "windows_server"}
      [] k = 3 -> {"client", "server"}
      [] OTHER -> {"client", "client_mappings", "server", "server_mappings"}
ClassifierFields(k) == {"natives-linux", "natives-osx"}

\* serde_json::from_value::<VkManifest>(value).is_ok()
Accepts(k, d) ==
    CASE k = 1 -> V1Manifest(d)
      [] k = 2 -> V2Manifest(d)
      [] k = 3 -> V3Manifest(d)
      [] k = 4 -> V4Manifest(d)
      [] k = 5 -> V5Manifest(d)
      [] k = 6 -> V6Manifest(d)

\* Result<Manifest, serde_json::Error>, with manifest_version() of an Ok
Ok(v) == [state |-> "ok", version |-> v]
Err == [state |-> "err", version |-> 0]

\* a resolver that tries the oldest schema first
from_value_oldest_first(d) ==
    IF Accepts(1, d) THEN Ok(1)
    ELSE IF Accepts(2, d) THEN Ok(2)
    ELSE IF Accepts(3, d) THEN Ok(3)
    ELSE IF Accepts(4, d) THEN Ok(4)
    ELSE IF Accepts(5, d) THEN Ok(5)
    ELSE IF Accepts(6, d) THEN Ok(6)
    ELSE Err

\* from_value with the last link of the chain, the V1 schema, left out
from_value_without_V1(d) ==
    IF Accepts(6, d) THEN Ok(6)
    ELSE IF Accepts(5, d) THEN Ok(5)
    ELSE IF Accepts(4, d) THEN Ok(4)
    ELSE IF Accepts(3, d) THEN Ok(3)
    ELSE IF Accepts(2, d) THEN Ok(2)
    ELSE Err

\* Manifest::from_value: the or_else chain, and manifest_version of the result
from_value(d) ==
    IF Accepts(6, d) THEN Ok(6)
    ELSE IF Accepts(5, d) THEN Ok(5)
    ELSE IF Accepts(4, d) THEN Ok(4)
    ELSE IF Accepts(3, d) THEN Ok(3)
    ELSE IF Accepts(2, d) THEN Ok(2)
    ELSE IF Accepts(1, d) THEN Ok(1)
    ELSE Err

\* the VkManifest serde_json::from_value::<VkManifest> builds of a document
\* the schema accepts: the fields of the struct, the keys it has no field
\* for dropped
Variant(k, d) ==
    [version |-> k,
     keys |-> d.keys \cap Fields(k),
     downloads |-> d.downloads \cap DownloadFields(k),
     java_version |->
        IF "javaVersion" \in Fields(k) THEN d.java_version ELSE None,
     libraries |->
        [i \in 1..Len(d.libraries) |->
            [artifact |-> d.libraries[i].artifact,
             classifiers |->
                IF d.libraries[i].classifiers = None THEN None
                ELSE Some(d.libraries[i].classifiers[1] \cap ClassifierFields(k))]]]

\* Result<String, serde_json::Error> of Manifest::serialize, the string by
\* the document it spells
Serialized(d) == [state |-> "ok", document |-> d]

\* Manifest::serialize with logging marked #[serde(skip_serializing)]
serialize_skipping_logging(m) ==
    Serialized([keys |-> m.keys \ {"logging"}, downloads |-> m.downloads,
                libraries |-> m.libraries, java_version |-> m.java_version])

\* Manifest::serialize: serde_json::to_string of the variant's struct writes
\* every field of the struct under its key; an Option that is None is
\* written as null, which every schema reads as it reads an absent key, so
\* that the documents do not tell null from absent
serialize(m) ==
    Serialized([keys |-> m.keys, downloads |-> m.downloads,
                libraries |-> m.libraries, java_version |-> m.java_version])

\* Manifest::java_major_version: the major version of the variant's
\* javaVersion, and 8 for a variant that has none
java_major_version(m) ==
    IF m.java_version = None THEN 8 ELSE m.java_version[1]

\* what the request of Version::download comes back with: no response, a
\* body that is not JSON, or a JSON value
Responses == {"request failed", "not json", "json"}
NoResponse == "none"

\* Err(Report<VersionGetError>), by its context
RequestError == [state |-> "Request", version |-> 0]
CannotParse == [state |-> "CannotParse", version |-> 0]

\* Version::download
download(r, d) ==
    IF r = "request failed" THEN RequestError
    ELSE IF r = "not json" THEN CannotParse
    ELSE IF from_value(d).state = "ok" THEN from_value(d)
    ELSE CannotParse

(***************************************************************************)
(* Strings that are substituted into and joined: sequences of atoms.       *)
(***************************************************************************)
RECURSIVE Replace(_, _, _)
\* str::replace(from, to), from a one-atom pattern
Replace(s, from, to) ==
    IF s = <<>> THEN <<>>
    ELSE (IF Head(s) = from THEN to ELSE <<Head(s)>>) \o Replace(Tail(s), from, to)

RECURSIVE Join_dedup(_, _)
\* Itertools::dedup().join(sep): an element equal to the one before it is
\* dropped
Join_dedup(strs, sep) ==
    IF strs = <<>> THEN <<>>
    ELSE IF Len(strs) = 1 THEN strs[1]
    ELSE IF strs[1] = strs[2] THEN Join_dedup(Tail(strs), sep)
    ELSE strs[1] \o sep \o Join_dedup(Tail(strs), sep)

RECURSIVE Join(_, _)
\* Itertools::join(sep): the elements with sep between each two
Join(strs, sep) ==
    IF strs = <<>> THEN <<>>
    ELSE IF Len(strs) = 1 THEN strs[1]
    ELSE strs[1] \o sep \o Join(Tail(strs), sep)

\* Path::to_str().unwrap_or_default(): a path that is not UTF-8 is None
to_str_or_default(path) == IF path = None THEN <<>> ELSE path[1]

\* i32::to_string
to_string(n) == <<ToString(n)>>

(***************************************************************************)
(* Quickplay                                                               *)
(***************************************************************************)
is_singleplayer(q) == q = "Singleplayer"
is_multiplayer(q) == q = "Multiplayer"
is_realms(q) == q = "Realms"

(***************************************************************************)
(* Rule evaluation.  A call returns "true" or "false", or ends in "panic". *)
(***************************************************************************)
\* Option<bool> != bool, for a feature that is Some
Differs(feature, fact) == feature # None /\ feature[1] # fact

\* minecraft_rule_passes with is_quick_play_multiplayer compared with
\* is_singleplayer()
minecraft_rule_passes_wrong_mode(l, rule) ==
    IF rule.action = "allow" THEN
        LET features == rule.features IN
        IF Differs(features.is_demo_user, l.is_demo_user) THEN "false"
        ELSE IF Differs(features.has_quick_plays_support, l.quickplay # None)
            THEN "false"
        ELSE IF Differs(features.is_quick_play_singleplayer,
                        l.quickplay # None /\ is_singleplayer(l.quickplay[1]))
            THEN "false"
        ELSE IF Differs(features.is_quick_play_multiplayer,
                        l.quickplay # None /\ is_singleplayer(l.quickplay[1]))
            THEN "false"
        ELSE IF Differs(features.is_quick_play_realms,
                        l.quickplay # None /\ is_realms(l.quickplay[1]))
            THEN "false"
        ELSE "true"
    ELSE "panic"

\* Launcher::minecraft_rule_passes
minecraft_rule_passes(l, rule) ==
    IF rule.action = "allow" THEN
        LET features == rule.features IN
        IF Differs(features.is_demo_user, l.is_demo_user) THEN "false"
        ELSE IF Differs(features.has_quick_plays_support, l.quickplay # None)
            THEN "false"
        ELSE IF Differs(features.is_quick_play_singleplayer,
                        l.quickplay # None /\ is_singleplayer(l.quickplay[1]))
            THEN "false"
        ELSE IF Differs(features.is_quick_play_multiplayer,
                        l.quickplay # None /\ is_multiplayer(l.quickplay[1]))
            THEN "false"
        ELSE IF Differs(features.is_quick_play_realms,
                        l.quickplay # None /\ is_realms(l.quickplay[1]))
            THEN "false"
        ELSE "true"
    ELSE "panic"

\* the literal java_rule_passes compares os.version with
Windows10Pattern == "^10\\."

\* the match on os.arch() of java_rule_passes: "go on" when it falls through
ArchArm(os, h) ==
    IF os.arch = None THEN "go on"
    ELSE IF os.arch[1] = "x86"
        THEN (IF h.target_arch # "x86" THEN "false" ELSE "go on")
    ELSE "panic"

\* the match on os.name() with the osx arm testing target_os = "osx"
NameArm_osx_target(os, h) ==
    IF os.name = None THEN "true"
    ELSE IF os.name[1] = "windows" THEN
        IF h.target_os = "windows" THEN
            IF os.version # None THEN
                IF os.version[1] # Windows10Pattern THEN "panic"
                ELSE IF h.IsWindows10OrGreater = Some(TRUE) THEN "true"
                ELSE "false"
            ELSE "true"
        ELSE "false"
    ELSE IF os.name[1] = "osx" THEN
        (IF h.target_os # "osx" THEN "false" ELSE "true")
    ELSE IF os.name[1] = "linux" THEN
        (IF h.target_os # "linux" THEN "false" ELSE "true")
    ELSE "panic"

\* the match on os.name() of java_rule_passes
NameArm(os, h) ==
    IF os.name = None THEN "true"
    ELSE IF os.name[1] = "windows" THEN
        IF h.target_os = "windows" THEN
            IF os.version # None THEN
                IF os.version[1] # Windows10Pattern THEN "panic"
                ELSE IF h.IsWindows10OrGreater = Some(TRUE) THEN "true"
                ELSE "false"
            ELSE "true"
        ELSE "false"
    ELSE IF os.name[1] = "osx" THEN
        (IF h.target_os # "macos" THEN "false" ELSE "true")
    ELSE IF os.name[1] = "linux" THEN
        (IF h.target_os # "linux" THEN "false" ELSE "true")
    ELSE "panic"

\* java_rule_passes with a Disallow rule taken as one that does not pass
java_rule_passes_disallow_false(h, rule) ==
    IF rule.action = "allow" THEN
        IF rule.os = None THEN "true"
        ELSE LET os == rule.os[1]
                 arch == ArchArm(os, h)
             IN  IF arch = "go on" THEN NameArm(os, h) ELSE arch
    ELSE "false"

\* Launcher::java_rule_passes
java_rule_passes(h, rule) ==
    IF rule.action = "allow" THEN
        IF rule.os = None THEN "true"
        ELSE LET os == rule.os[1]
                 arch == ArchArm(os, h)
             IN  IF arch = "go on" THEN NameArm(os, h) ELSE arch
    ELSE "panic"

(***************************************************************************)
(* Placeholder substitution.                                               *)
(***************************************************************************)
\* self.version_name.replace(" ", "_"), the colons left as they are
SanitizedVersionName_spaces_only(l) == Replace(l.version_name, " ", <<"_">>)

\* self.version_name.replace(" ", "_").replace(":", "_")
SanitizedVersionName(l) ==
    Replace(Replace(l.version_name, " ", <<"_">>), ":", <<"_">>)

\* parse_minecraft_arg_str with an absent custom resolution substituted as
\* i32::default().to_string()
parse_minecraft_arg_str_zero_size(l, minecraft_arg) ==
    LET s1 == Replace(minecraft_arg, "${auth_player_name}", l.username)
        s2 == Replace(s1, "${version_name}", SanitizedVersionName(l))
        s3 == Replace(s2, "${game_directory}", to_str_or_default(l.game_directory))
        s4 == Replace(s3, "${assets_root}", to_str_or_default(l.assets_directory))
        s5 == Replace(s4, "${assets_index_name}", SanitizedVersionName(l))
        s6 == Replace(s5, "${auth_uuid}", l.id)
        s7 == Replace(s6, "${auth_access_token}", l.access_token)
        s8 == Replace(s7, "${user_type}", <<"msa">>)
        s9 == Replace(s8, "${version_type}",
                      IF l.is_snapshot THEN <<"snapshot">> ELSE <<"release">>)
        s10 == Replace(s9, "${resolution_width}",
                       IF l.custom_resolution = None THEN to_string(0)
                       ELSE to_string(l.custom_resolution[1].width))
    IN  Replace(s10, "${resolution_height}",
                IF l.custom_resolution = None THEN to_string(0)
                ELSE to_string(l.custom_resolution[1].height))

\* Launcher::parse_minecraft_arg_str: the chain of str::replace calls
parse_minecraft_arg_str(l, minecraft_arg) ==
    LET s1 == Replace(minecraft_arg, "${auth_player_name}", l.username)
        s2 == Replace(s1, "${version_name}", SanitizedVersionName(l))
        s3 == Replace(s2, "${game_directory}", to_str_or_default(l.game_directory))
        s4 == Replace(s3, "${assets_root}", to_str_or_default(l.assets_directory))
        s5 == Replace(s4, "${assets_index_name}", SanitizedVersionName(l))
        s6 == Replace(s5, "${auth_uuid}", l.id)
        s7 == Replace(s6, "${auth_access_token}", l.access_token)
        s8 == Replace(s7, "${user_type}", <<"msa">>)
        s9 == Replace(s8, "${version_type}",
                      IF l.is_snapshot THEN <<"snapshot">> ELSE <<"release">>)
        s10 == Replace(s9, "${resolution_width}",
                       IF l.custom_resolution = None THEN <<>>
                       ELSE to_string(l.custom_resolution[1].width))
    IN  Replace(s10, "${resolution_height}",
                IF l.custom_resolution = None THEN <<>>
                ELSE to_string(l.custom_resolution[1].height))

\* Launcher::parse_java_arg_str
parse_java_arg_str(l, arg) ==
    Replace(arg, "${natives_directory}", to_str_or_default(l.libraries_directory))

(***************************************************************************)
(* Argument lists.  An argument is [class, rules, value]: a bare string    *)
(* (Game::String, Jvm::String) has class FALSE and no rules; its value,    *)
(* like Value::String, is [array |-> FALSE, strs |-> <<s>>], and           *)
(* Value::StringArray(a) is [array |-> TRUE, strs |-> a].                  *)
(***************************************************************************)
String(s) == [array |-> FALSE, strs |-> <<s>>]
StringArray(a) == [array |-> TRUE, strs |-> a]
Bare(s) == [class |-> FALSE, rules |-> <<>>, value |-> String(s)]
Class(rules, v) == [class |-> TRUE, rules |-> rules, value |-> v]

RECURSIVE any(_)
\* Iterator::any
any(outcomes) ==
    IF outcomes = <<>> THEN "false"
    ELSE IF Head(outcomes) = "false" THEN any(Tail(outcomes))
    ELSE Head(outcomes)

RECURSIVE all(_)
\* Iterator::all over the rules' outcomes, in order: the first outcome that
\* is not "true" ends it ("false": short circuit; "panic": unwinding)
all(outcomes) ==
    IF outcomes = <<>> THEN "true"
    ELSE IF Head(outcomes) = "true" THEN all(Tail(outcomes))
    ELSE Head(outcomes)

\* class.rules().iter().all(|rule| self.minecraft_rule_passes(rule))
GameClassPasses(l, class) ==
    all([i \in 1..Len(class.rules) |-> minecraft_rule_passes(l, class.rules[i])])

\* class.rules().iter().all(|rule| self.java_rule_passes(rule))
JvmClassPasses(h, class) ==
    all([i \in 1..Len(class.rules) |-> java_rule_passes(h, class.rules[i])])

\* the match on class.value() of parse_minecraft_args
GameValue(l, v) ==
    IF v.array
        THEN Join([i \in 1..Len(v.strs) |-> parse_minecraft_arg_str(l, v.strs[i])],
                  <<" ">>)
    ELSE parse_minecraft_arg_str(l, v.strs[1])

\* the match on class.value() of parse_jvm_args
JvmValue(l, v) ==
    IF v.array
        THEN Join([i \in 1..Len(v.strs) |-> parse_java_arg_str(l, v.strs[i])],
                  <<" ">>)
    ELSE parse_java_arg_str(l, v.strs[1])

\* the closure parse_minecraft_args maps over the game arguments
GameToken(l, arg) ==
    IF arg.class THEN
        IF GameClassPasses(l, arg) = "true" THEN GameValue(l, arg.value)
        ELSE <<>>
    ELSE arg.value.strs[1]

\* the closure parse_jvm_args maps over the jvm arguments
JvmToken(l, h, arg) ==
    IF arg.class THEN
        IF JvmClassPasses(h, arg) = "true" THEN JvmValue(l, arg.value)
        ELSE <<>>
    ELSE parse_java_arg_str(l, arg.value.strs[1])

\* what a call of parse_minecraft_args or parse_jvm_args ends in
Returned(tokens, line) == [state |-> "ok", tokens |-> tokens, line |-> line]
Panicked == [state |-> "panic", tokens |-> <<>>, line |-> <<>>]
Uncalled == [state |-> "uncalled", tokens |-> <<>>, line |-> <<>>]

\* Manifest::get_arguments: the generations before V3 carry the single
\* minecraftArguments string, the later ones the structured arguments
get_arguments(m) ==
    IF m.version <= 2
        THEN [structured |-> FALSE, minecraft_args |-> m.minecraft_arguments,
              game |-> <<>>, jvm |-> <<>>]
    ELSE [structured |-> TRUE, minecraft_args |-> <<>>,
          game |-> m.arguments.game, jvm |-> m.arguments.jvm]

\* parse_minecraft_args with the legacy string returned as it is
parse_minecraft_args_legacy_raw(l, m) ==
    LET args == get_arguments(m) IN
    IF ~args.structured
        THEN Returned(<<args.minecraft_args>>, args.minecraft_args)
    ELSE IF \E i \in 1..Len(args.game) :
                args.game[i].class /\ GameClassPasses(l, args.game[i]) = "panic"
        THEN Panicked
    ELSE LET tokens == [i \in 1..Len(args.game) |-> GameToken(l, args.game[i])]
         IN  Returned(tokens, Join(tokens, <<" ">>))

\* Launcher::parse_minecraft_args
parse_minecraft_args(l, m) ==
    LET args == get_arguments(m) IN
    IF ~args.structured
        THEN LET line == parse_minecraft_arg_str(l, args.minecraft_args)
             IN  Returned(<<line>>, line)
    ELSE IF \E i \in 1..Len(args.game) :
                args.game[i].class /\ GameClassPasses(l, args.game[i]) = "panic"
        THEN Panicked
    ELSE LET tokens == [i \in 1..Len(args.game) |-> GameToken(l, args.game[i])]
         IN  Returned(tokens, Join(tokens, <<" ">>))

\* Launcher::parse_jvm_args
parse_jvm_args(l, h, m) ==
    LET args == get_arguments(m) IN
    IF ~args.structured THEN Returned(<<>>, <<>>)
    ELSE IF \E i \in 1..Len(args.jvm) :
                args.jvm[i].class /\ JvmClassPasses(h, args.jvm[i]) = "panic"
        THEN Panicked
    ELSE LET tokens == [i \in 1..Len(args.jvm) |-> JvmToken(l, h, args.jvm[i])]
         IN  Returned(tokens, Join(tokens, <<" ">>))

(***************************************************************************)
(* The inputs: launchers, hosts, rules and manifests.                      *)
(***************************************************************************)
OptBool == {None, Some(TRUE), Some(FALSE)}

\* Features: every key an Option<bool>
Features ==
    [is_demo_user : OptBool, has_custom_resolution : OptBool,
     has_quick_plays_support : OptBool, is_quick_play_singleplayer : OptBool,
     is_quick_play_multiplayer : OptBool, is_quick_play_realms : OptBool]

NoFeatures ==
    [is_demo_user |-> None, has_custom_resolution |-> None,
     has_quick_plays_support |-> None, is_quick_play_singleplayer |-> None,
     is_quick_play_multiplayer |-> None, is_quick_play_realms |-> None]

FeatureKeys == DOMAIN NoFeatures

\* the features that are Some
Specified(f) == {k \in FeatureKeys : f[k] # None}

\* GameRule
GameRules == [action : {"allow", "disallow"}, features : Features]

\* the game rules the rule lists are drawn from: the allow rules with at
\* most one feature key, and a disallow rule
SimpleGameRules ==
    {r \in GameRules :
        Cardinality(Specified(r.features)) <= (IF r.action = "allow" THEN 1 ELSE 0)}

\* Os: name, version and arch are Option<String>; "freebsd" and "x86_64"
\* stand for the names and archs java_rule_passes has no arm for, "^6\\."
\* for the version literals it does not recognise
Os ==
    [name : {None, Some("windows"), Some("osx"), Some("linux"), Some("freebsd")},
     version : {None, Some(Windows10Pattern), Some("^6\\.")},
     arch : {None, Some("x86"), Some("x86_64")}]

\* Rule, the rule of a JvmRule
JvmRules == [action : {"allow", "disallow"}, os : {None} \cup {Some(o) : o \in Os}]

\* the jvm rules the rule lists are drawn from: the allow rules with no os
\* or one sub-field of it, and a disallow rule
SimpleJvmRules ==
    {r \in JvmRules :
        r.os # None =>
            /\ r.action = "allow"
            /\ Cardinality({k \in {"name", "version", "arch"} : r.os[1][k] # None}) = 1}

\* cfg!(target_os), cfg!(target_arch) and what IsWindows10OrGreater() returns
\* (None: Err; it is compiled for windows only)
Hosts ==
    [target_os : {"windows"}, target_arch : {"x86", "x86_64", "aarch64"},
     IsWindows10OrGreater : OptBool]
    \cup [target_os : {"linux", "macos", "freebsd"},
          target_arch : {"x86", "x86_64", "aarch64"},
          IsWindows10OrGreater : {None}]

LinuxHost ==
    [target_os |-> "linux", target_arch |-> "x86_64", IsWindows10OrGreater |-> None]

\* Launcher::new: the fields the argument resolution reads
BaseLauncher ==
    [is_demo_user |-> FALSE,
     quickplay |-> None,
     custom_resolution |-> None,
     is_snapshot |-> FALSE,
     version_name |-> <<"1.20.1">>,
     username |-> <<"Steve">>,
     id |-> <<"069a79f4">>,
     access_token |-> <<"eyJhbGci">>,
     game_directory |-> Some(<<"/home/steve/.minecraft">>),
     assets_directory |-> Some(<<"/home/steve/.minecraft/assets">>),
     libraries_directory |-> Some(<<"/home/steve/.minecraft/libraries">>)]

Quickplays ==
    {None, Some("Singleplayer"), Some("Multiplayer"), Some("Realms")}

CustomResolutions == {None, Some([width |-> 854, height |-> 480])}

\* the launchers that differ in the facts the game rules read
RuleLaunchers ==
    {[BaseLauncher EXCEPT !.is_demo_user = d, !.quickplay = q,
                          !.custom_resolution = c] :
        d \in BOOLEAN, q \in Quickplays, c \in CustomResolutions}

\* the launchers that differ in the values the placeholders get
ValueLaunchers ==
    {[BaseLauncher EXCEPT !.is_demo_user = d, !.custom_resolution = c,
                          !.is_snapshot = s, !.version_name = v,
                          !.username = u, !.game_directory = g] :
        d \in BOOLEAN, c \in CustomResolutions, s \in BOOLEAN,
        v \in {<<"1.20.1">>, <<"1.14", " ", "Pre-Release", ":", "2">>},
        u \in {<<"Steve">>, <<"${auth_access_token}">>},
        g \in {None, Some(<<"/home/steve/.minecraft">>)}}

\* the launchers that differ in the facts the game argument lists read
ArgLaunchers ==
    {[BaseLauncher EXCEPT !.is_demo_user = d, !.custom_resolution = c] :
        d \in BOOLEAN, c \in CustomResolutions}

\* the launchers that differ in the libraries directory
JvmLaunchers ==
    {[BaseLauncher EXCEPT !.libraries_directory = p] :
        p \in {None, Some(<<"/home/steve/.minecraft/libraries">>)}}

Allow(f) == [action |-> "allow", features |-> f]
AllowOs(o) == [action |-> "allow", os |-> Some(o)]
AnyOs == [name |-> None, version |-> None, arch |-> None]

\* the documented placeholders of the game arguments
GamePlaceholders ==
    {"${auth_player_name}", "${version_name}", "${game_directory}",
     "${assets_root}", "${assets_index_name}", "${auth_uuid}",
     "${auth_access_token}", "${user_type}", "${version_type}",
     "${resolution_width}", "${resolution_height}"}

\* the game arguments the lists are drawn from
GamePool ==
    {Bare(<<"--username">>),
     Bare(<<"${auth_player_name}">>),
     Class(<<Allow([NoFeatures EXCEPT !.is_demo_user = Some(TRUE)])>>,
           String(<<"--demo">>)),
     Class(<<Allow([NoFeatures EXCEPT !.has_custom_resolution = Some(TRUE)])>>,
           StringArray(<< <<"--width">>, <<"${resolution_width}">>,
                          <<"--height">>, <<"${resolution_height}">> >>)),
     Class(<<[action |-> "disallow", features |-> NoFeatures]>>,
           String(<<"--uuid", " ", "${auth_uuid}">>))}

\* the jvm arguments the lists are drawn from
JvmPool ==
    {Bare(<<"-Djava.library.path=", "${natives_directory}">>),
     Bare(<<"-cp">>),
     Class(<<AllowOs([AnyOs EXCEPT !.name = Some("osx")])>>,
           StringArray(<< <<"-XstartOnFirstThread">> >>)),
     Class(<<AllowOs([AnyOs EXCEPT !.arch = Some("x86")])>>,
           String(<<"-Xss1M">>)),
     Class(<<AllowOs([AnyOs EXCEPT !.name = Some("windows"),
                                   !.version = Some(Windows10Pattern)])>>,
           StringArray(<< <<"-Dos.name=Windows", " ", "10">>,
                          <<"-Dos.version=10.0">> >>))}

\* the documented placeholders of the jvm arguments
JvmPlaceholders ==
    {"${natives_directory}", "${launcher_name}", "${launcher_version}",
     "${classpath}"}

\* the strings of the jvm arguments that carry a placeholder
JvmStrings ==
    {<<"-Djava.library.path=", "${natives_directory}">>,
     <<"-Dminecraft.launcher.brand=", "${launcher_name}">>,
     <<"-Dminecraft.launcher.version=", "${launcher_version}">>,
     <<"${classpath}">>}

\* the minecraftArguments strings of the legacy manifests
LegacyStrings ==
    {<<"--username", " ", "${auth_player_name}">>,
     <<"${auth_player_name}", " ", "${auth_session}", " ", "--gameDir", " ",
       "${game_directory}", " ", "--assetsDir", " ", "${assets_root}">>,
     <<"--username", " ", "${auth_player_name}", " ", "--version", " ",
       "${version_name}", " ", "--gameDir", " ", "${game_directory}", " ",
       "--assetsDir", " ", "${assets_root}", " ", "--assetIndex", " ",
       "${assets_index_name}", " ", "--uuid", " ", "${auth_uuid}", " ",
       "--accessToken", " ", "${auth_access_token}", " ", "--userType", " ",
       "${user_type}", " ", "--versionType", " ", "${version_type}", " ",
       "--width", " ", "${resolution_width}", " ", "--height", " ",
       "${resolution_height}">>}

\* a V1 or V2 manifest, and a V3 .. V6 manifest, as the Launcher reads them
Legacy(v, s) ==
    [version |-> v, minecraft_arguments |-> s,
     arguments |-> [game |-> <<>>, jvm |-> <<>>]]
Structured(v, game, jvm) ==
    [version |-> v, minecraft_arguments |-> <<>>,
     arguments |-> [game |-> game, jvm |-> jvm]]

(***************************************************************************)
(* Authentication (src/src/auth.rs).  A request is [url, body], the body   *)
(* by the strings the code puts into it; what a server sends back is an    *)
(* XboxLiveResponse / XstsResponse [state, token, xui], xui the uhs of     *)
(* each claim of DisplayClaims, or a failure of send() or of json().       *)
(***************************************************************************)
TOKEN_URL == "https://login.microsoftonline.com/consumers/oauth2/v2.0/token"

\* OauthCode and the secret of the CsrfToken
OauthStates == {"state-1", "state-2"}
OauthCodes == [code : {"M.R3_BAY"}, state : OauthStates]
NoOauthCode == [code |-> "", state |-> ""]

\* the uhs values of the xui claims
UserHashes == {"uhs-1", "uhs-2"}

\* what user.auth.xboxlive.com and xsts.auth.xboxlive.com send back
XboxFailures ==
    {[state |-> f, token |-> "", xui |-> <<>>] : f \in {"send failed", "bad body"}}
XboxLiveReplies ==
    XboxFailures
    \cup {[state |-> "ok", token |-> "xbl-token", xui |-> x] :
             x \in SeqsUpTo(UserHashes, MaxClaims)}
XstsReplies ==
    XboxFailures
    \cup {[state |-> "ok", token |-> "xsts-token", xui |-> x] :
             x \in SeqsUpTo(UserHashes, MaxClaims)}
NoXboxResponse == [state |-> "none", token |-> "", xui |-> <<>>]

\* what the token endpoint and api.minecraftservices.com send back
ExchangeReplies == {"send failed", "ms-access-token"}
MinecraftReplies == {"send failed", "bad body", "mc-access-token"}

\* Result<_, Report<GetXboxTokenError>> of the two calls
NotCalled == [state |-> "uncalled", token |-> ""]
Token(t) == [state |-> "ok", token |-> t]
OauthError == [state |-> "OauthError", token |-> ""]
XboxLiveError == [state |-> "XboxLiveError", token |-> ""]

\* the requests
ExchangeRequest(code) == [url |-> TOKEN_URL, body |-> <<code.code>>]
XboxLiveRequest(access_token) ==
    [url |-> "https://user.auth.xboxlive.com/user/authenticate",
     body |-> <<"d=", access_token>>]
XstsRequest(token) ==
    [url |-> "https://xsts.auth.xboxlive.com/xsts/authorize", body |-> <<token>>]
MinecraftRequest(user_hash, xsts_token) ==
    [url |-> "https://api.minecraftservices.com/authentication/login_with_xbox",
     body |-> <<"XBL3.0 x=", user_hash, ";", xsts_token>>]

\* display_claims.xui.first() of a response, by its uhs
uhs(r) == IF r.xui = <<>> THEN None ELSE Some(r.xui[1])

\* the state check of get_ms_access_token left out
validate_unchecked(code, secret) == TRUE

\* &code.state == csrf.secret()
validate(code, secret) == code.state = secret

\* get_minecraft_token after the XSTS response without the ensure! of the
\* two user hashes
xsts_claims_pass_without_ensure(xbox_live, xsts) == uhs(xsts) # None

\* get_minecraft_token after the XSTS response: the first xui claim is
\* there, and ensure!(uhs == user_hash)
xsts_claims_pass(xbox_live, xsts) ==
    /\ uhs(xsts) # None
    /\ uhs(xsts) = uhs(xbox_live)

(***************************************************************************)
(* The state machine.  pc names the call the caller makes; every call is   *)
(* made once, on the inputs Init has drawn.                                *)
(***************************************************************************)
NoGameRule == [action |-> "allow", features |-> NoFeatures]
NoJvmRule == [action |-> "allow", os |-> None]
NoManifest == Legacy(1, <<>>)
NoDocument ==
    [keys |-> {}, downloads |-> {}, libraries |-> <<>>, java_version |-> None]
NotParsed == [state |-> "uncalled", version |-> 0]
NotSerialized == [state |-> "uncalled", document |-> NoDocument]

\* no authentication call is made
NoAuth ==
    /\ oauth_code = NoOauthCode
    /\ csrf = ""
    /\ ms_token = NotCalled
    /\ xbox_live_response = NoXboxResponse
    /\ xsts_response = NoXboxResponse
    /\ minecraft_token = NotCalled
    /\ requests = <<>>
    /\ auth_pc = "idle"

Outcomes ==
    /\ parsed = NotParsed
    /\ serialized = NotSerialized
    /\ reparsed = NotParsed
    /\ java_major = None
    /\ passes = "uncalled"
    /\ minecraft_args = Uncalled
    /\ jvm_args = Uncalled

\* one game rule, against every launcher
InitGameRule ==
    /\ pc = "minecraft_rule_passes"
    /\ game_rule \in GameRules
    /\ launcher \in RuleLaunchers
    /\ host = LinuxHost
    /\ jvm_rule = NoJvmRule
    /\ manifest = NoManifest
    /\ value = NoDocument

\* one jvm rule, on every host
InitJvmRule ==
    /\ pc = "java_rule_passes"
    /\ jvm_rule \in JvmRules
    /\ host \in Hosts
    /\ launcher = BaseLauncher
    /\ game_rule = NoGameRule
    /\ manifest = NoManifest
    /\ value = NoDocument

\* one game argument guarded by a list of rules
InitGameRuleList ==
    /\ pc = "parse_minecraft_args"
    /\ \E rules \in SeqsUpTo(SimpleGameRules, MaxRules) :
          manifest = Structured(6, <<Class(rules, String(<<"--demo">>))>>, <<>>)
    /\ launcher \in RuleLaunchers
    /\ host = LinuxHost
    /\ game_rule = NoGameRule
    /\ jvm_rule = NoJvmRule
    /\ value = NoDocument

\* one jvm argument guarded by a list of rules
InitJvmRuleList ==
    /\ pc = "parse_jvm_args"
    /\ \E rules \in SeqsUpTo(SimpleJvmRules, MaxRules) :
          manifest = Structured(6, <<>>, <<Class(rules, String(<<"-Xss1M">>))>>)
    /\ host \in Hosts
    /\ launcher = BaseLauncher
    /\ game_rule = NoGameRule
    /\ jvm_rule = NoJvmRule
    /\ value = NoDocument

\* a list of game arguments
InitGameArgs ==
    /\ pc = "parse_minecraft_args"
    /\ \E game \in SeqsUpTo(GamePool, MaxArgs) : manifest = Structured(6, game, <<>>)
    /\ launcher \in ArgLaunchers
    /\ host = LinuxHost
    /\ game_rule = NoGameRule
    /\ jvm_rule = NoJvmRule
    /\ value = NoDocument

\* a list of jvm arguments
InitJvmArgs ==
    /\ pc = "parse_jvm_args"
    /\ \E jvm \in SeqsUpTo(JvmPool, MaxArgs) : manifest = Structured(6, <<>>, jvm)
    /\ launcher \in JvmLaunchers
    /\ host \in {h \in Hosts : h.target_arch # "aarch64" /\ h.target_os # "freebsd"}
    /\ game_rule = NoGameRule
    /\ jvm_rule = NoJvmRule
    /\ value = NoDocument

\* a legacy manifest, or one structured argument, and every value of the
\* placeholders
InitValues ==
    /\ pc \in {"parse_minecraft_args", "parse_jvm_args"}
    /\ \/ \E v \in {1, 2}, s \in LegacyStrings : manifest = Legacy(v, s)
       \/ \E s \in LegacyStrings :
             manifest = Structured(6, <<Class(<<>>, String(s))>>, <<>>)
    /\ launcher \in ValueLaunchers \cup RuleLaunchers
    /\ host = LinuxHost
    /\ game_rule = NoGameRule
    /\ jvm_rule = NoJvmRule
    /\ value = NoDocument

\* one jvm argument that carries a placeholder: a bare string, a guarded
\* string or a guarded array of two strings
InitJvmValues ==
    /\ pc = "parse_jvm_args"
    /\ \E s \in JvmStrings :
          \/ manifest = Structured(6, <<>>, <<Bare(s)>>)
          \/ manifest = Structured(6, <<>>, <<Class(<<>>, String(s))>>)
          \/ manifest = Structured(6, <<>>,
                                   <<Class(<<>>, StringArray(<< <<"-cp">>, s >>))>>)
    /\ launcher \in JvmLaunchers
    /\ host = LinuxHost
    /\ game_rule = NoGameRule
    /\ jvm_rule = NoJvmRule
    /\ value = NoDocument

Init ==
    /\ Outcomes
    /\ NoAuth
    /\ response = NoResponse
    /\ \/ InitGameRule
       \/ InitJvmRule
       \/ InitGameRuleList
       \/ InitJvmRuleList
       \/ InitGameArgs
       \/ InitJvmArgs
       \/ InitValues
       \/ InitJvmValues

\* a call of Launcher::minecraft_rule_passes
MinecraftRulePasses ==
    /\ pc = "minecraft_rule_passes"
    /\ passes = "uncalled"
    /\ passes' = minecraft_rule_passes(launcher, game_rule)
    /\ UNCHANGED <<response, value, parsed, serialized, reparsed, java_major,
                   launcher, host, manifest, game_rule, jvm_rule,
                   minecraft_args, jvm_args, pc, auth_vars>>

\* a call of Launcher::java_rule_passes
JavaRulePasses ==
    /\ pc = "java_rule_passes"
    /\ passes = "uncalled"
    /\ passes' = java_rule_passes(host, jvm_rule)
    /\ UNCHANGED <<response, value, parsed, serialized, reparsed, java_major,
                   launcher, host, manifest, game_rule, jvm_rule,
                   minecraft_args, jvm_args, pc, auth_vars>>

\* a call of Launcher::parse_minecraft_args
ParseMinecraftArgs ==
    /\ pc = "parse_minecraft_args"
    /\ minecraft_args = Uncalled
    /\ minecraft_args' = parse_minecraft_args(launcher, manifest)
    /\ UNCHANGED <<response, value, parsed, serialized, reparsed, java_major,
                   launcher, host, manifest, game_rule, jvm_rule, passes,
                   jvm_args, pc, auth_vars>>

\* a call of Launcher::parse_jvm_args
ParseJvmArgs ==
    /\ pc = "parse_jvm_args"
    /\ jvm_args = Uncalled
    /\ jvm_args' = parse_jvm_args(launcher, host, manifest)
    /\ UNCHANGED <<response, value, parsed, serialized, reparsed, java_major,
                   launcher, host, manifest, game_rule, jvm_rule, passes,
                   minecraft_args, pc, auth_vars>>

Next ==
    \/ MinecraftRulePasses
    \/ JavaRulePasses
    \/ ParseMinecraftArgs
    \/ ParseJvmArgs

Spec == Init /\ [][Next]_vars

\* a document, handed to Manifest::from_value, or the response to the
\* request of Version::download
InitManifest ==
    /\ Outcomes
    /\ NoAuth
    /\ \/ /\ pc = "from_value"
          /\ response = NoResponse
          /\ value \in Documents
       \/ /\ pc = "download"
          /\ \/ response = "json" /\ value \in Documents
             \/ response \in Responses \ {"json"} /\ value = NoDocument
    /\ launcher = BaseLauncher
    /\ host = LinuxHost
    /\ manifest = NoManifest
    /\ game_rule = NoGameRule
    /\ jvm_rule = NoJvmRule

\* a call of Manifest::from_value
FromValue ==
    /\ pc = "from_value"
    /\ parsed = NotParsed
    /\ parsed' = from_value(value)
    /\ UNCHANGED <<response, value, serialized, reparsed, java_major,
                   launcher, host, manifest, game_rule, jvm_rule, passes,
                   minecraft_args, jvm_args, pc, auth_vars>>

\* a call of Version::download
Download ==
    /\ pc = "download"
    /\ parsed = NotParsed
    /\ parsed' = download(response, value)
    /\ UNCHANGED <<response, value, serialized, reparsed, java_major,
                   launcher, host, manifest, game_rule, jvm_rule, passes,
                   minecraft_args, jvm_args, pc, auth_vars>>

\* a call of Manifest::serialize on the manifest from_value returned
Serialize ==
    /\ pc = "from_value"
    /\ parsed.state = "ok"
    /\ serialized = NotSerialized
    /\ serialized' = serialize(Variant(parsed.version, value))
    /\ UNCHANGED <<response, value, parsed, reparsed, java_major, launcher,
                   host, manifest, game_rule, jvm_rule, passes,
                   minecraft_args, jvm_args, pc, auth_vars>>

\* a call of Manifest::from_value on the string Manifest::serialize returned
Reparse ==
    /\ serialized.state = "ok"
    /\ reparsed = NotParsed
    /\ reparsed' = from_value(serialized.document)
    /\ UNCHANGED <<response, value, parsed, serialized, java_major, launcher,
                   host, manifest, game_rule, jvm_rule, passes,
                   minecraft_args, jvm_args, pc, auth_vars>>

\* a call of Manifest::java_major_version on the manifest from_value
\* returned
JavaMajorVersion ==
    /\ pc = "from_value"
    /\ parsed.state = "ok"
    /\ java_major = None
    /\ java_major' = Some(java_major_version(Variant(parsed.version, value)))
    /\ UNCHANGED <<response, value, parsed, serialized, reparsed, launcher,
                   host, manifest, game_rule, jvm_rule, passes,
                   minecraft_args, jvm_args, pc, auth_vars>>

NextManifest ==
    \/ FromValue
    \/ Download
    \/ Serialize
    \/ Reparse
    \/ JavaMajorVersion

SpecManifest == InitManifest /\ [][NextManifest]_vars

\* an authorization code and a CSRF token, no call made yet
InitAuth ==
    /\ Outcomes
    /\ pc = "auth"
    /\ response = NoResponse
    /\ value = NoDocument
    /\ launcher = BaseLauncher
    /\ host = LinuxHost
    /\ manifest = NoManifest
    /\ game_rule = NoGameRule
    /\ jvm_rule = NoJvmRule
    /\ oauth_code \in OauthCodes
    /\ csrf \in OauthStates
    /\ ms_token = NotCalled
    /\ xbox_live_response = NoXboxResponse
    /\ xsts_response = NoXboxResponse
    /\ minecraft_token = NotCalled
    /\ requests = <<>>
    /\ auth_pc = "idle"

\* MSOauth::get_ms_access_token, up to the await of the exchange request
GetMsAccessToken ==
    /\ pc = "auth"
    /\ auth_pc = "idle"
    /\ ms_token = NotCalled
    /\ IF validate(oauth_code, csrf)
          THEN /\ requests' = Append(requests, ExchangeRequest(oauth_code))
               /\ auth_pc' = "exchange"
               /\ UNCHANGED ms_token
       ELSE /\ ms_token' = OauthError
            /\ UNCHANGED <<requests, auth_pc>>
    /\ UNCHANGED <<call_vars, oauth_code, csrf, xbox_live_response,
                   xsts_response, minecraft_token>>

\* MSOauth::get_ms_access_token, from the reply to the exchange request
ExchangeReply ==
    /\ auth_pc = "exchange"
    /\ \E reply \in ExchangeReplies :
          ms_token' = IF reply = "send failed" THEN OauthError ELSE Token(reply)
    /\ auth_pc' = "idle"
    /\ UNCHANGED <<call_vars, oauth_code, csrf, xbox_live_response,
                   xsts_response, minecraft_token, requests>>

\* MSOauth::get_minecraft_token, up to the await of the Xbox Live request
GetMinecraftToken ==
    /\ pc = "auth"
    /\ auth_pc = "idle"
    /\ ms_token.state = "ok"
    /\ minecraft_token = NotCalled
    /\ requests' = Append(requests, XboxLiveRequest(ms_token.token))
    /\ auth_pc' = "xbox_live"
    /\ UNCHANGED <<call_vars, oauth_code, csrf, ms_token, xbox_live_response,
                   xsts_response, minecraft_token>>

\* MSOauth::get_minecraft_token, from the reply to the Xbox Live request up
\* to the await of the XSTS request
XboxLiveReply ==
    /\ auth_pc = "xbox_live"
    /\ \E reply \in XboxLiveReplies :
          IF reply.state # "ok"
              THEN /\ minecraft_token' = XboxLiveError
                   /\ auth_pc' = "idle"
                   /\ UNCHANGED <<xbox_live_response, requests>>
          ELSE /\ xbox_live_response' = reply
               /\ IF uhs(reply) = None
                     THEN /\ minecraft_token' = XboxLiveError
                          /\ auth_pc' = "idle"
                          /\ UNCHANGED requests
                  ELSE /\ requests' = Append(requests, XstsRequest(reply.token))
                       /\ auth_pc' = "xsts"
                       /\ UNCHANGED minecraft_token
    /\ UNCHANGED <<call_vars, oauth_code, csrf, ms_token, xsts_response>>

\* MSOauth::get_minecraft_token, from the reply to the XSTS request up to
\* the await of the Minecraft request
XstsReply ==
    /\ auth_pc = "xsts"
    /\ \E reply \in XstsReplies :
          IF reply.state # "ok"
              THEN /\ minecraft_token' = XboxLiveError
                   /\ auth_pc' = "idle"
                   /\ UNCHANGED <<xsts_response, requests>>
          ELSE /\ xsts_response' = reply
               /\ IF ~xsts_claims_pass(xbox_live_response, reply)
                     THEN /\ minecraft_token' = XboxLiveError
                          /\ auth_pc' = "idle"
                          /\ UNCHANGED requests
                  ELSE /\ requests' =
                             Append(requests,
                                    MinecraftRequest(reply.xui[1], reply.token))
                       /\ auth_pc' = "login"
                       /\ UNCHANGED minecraft_token
    /\ UNCHANGED <<call_vars, oauth_code, csrf, ms_token, xbox_live_response>>

\* MSOauth::get_minecraft_token, from the reply to the Minecraft request
MinecraftReply ==
    /\ auth_pc = "login"
    /\ \E reply \in MinecraftReplies :
          minecraft_token' =
              IF reply \in {"send failed", "bad body"} THEN XboxLiveError
              ELSE Token(reply)
    /\ auth_pc' = "idle"
    /\ UNCHANGED <<call_vars, oauth_code, csrf, ms_token, xbox_live_response,
                   xsts_response, requests>>

NextAuth ==
    \/ GetMsAccessToken
    \/ ExchangeReply
    \/ GetMinecraftToken
    \/ XboxLiveReply
    \/ XstsReply
    \/ MinecraftReply

SpecAuth == InitAuth /\ [][NextAuth]_vars

(***************************************************************************)
(* The claims.                                                             *)
(***************************************************************************)
\* C1: Manifest::from_value returns the variant of the highest-numbered
\* schema that accepts the document: whenever schema Vk accepts it, the
\* result is Ok, its manifest_version() is at least k and is the number of
\* a schema that accepts it, and a document the V6 schema accepts resolves
\* to version 6.
C1_NewestFirstWins ==
    parsed.state # "uncalled" =>
        /\ \A k \in 1..6 :
              Accepts(k, value) =>
                  /\ parsed.state = "ok"
                  /\ parsed.version >= k
                  /\ Accepts(parsed.version, value)
        /\ V6Manifest(value) => parsed = Ok(6)

\* C1 witness: a document every schema from V1 to V6 accepts was resolved
C1_Witness ==
    /\ parsed = Ok(6)
    /\ \A k \in 1..6 : Accepts(k, value)

\* the launcher's game argument list and jvm argument list
GameArgs == manifest.arguments.game
JvmArgs == manifest.arguments.jvm

\* whether every rule of a game (jvm) argument passes, each taken alone
EachGameRulePasses(arg) ==
    \A j \in 1..Len(arg.rules) : minecraft_rule_passes(launcher, arg.rules[j]) = "true"
EachJvmRulePasses(arg) ==
    \A j \in 1..Len(arg.rules) : java_rule_passes(host, arg.rules[j]) = "true"

\* whether no rule of any game (jvm) argument ends in an error
GameRulesErrorFree ==
    \A i \in 1..Len(GameArgs) : \A j \in 1..Len(GameArgs[i].rules) :
        minecraft_rule_passes(launcher, GameArgs[i].rules[j]) # "panic"
JvmRulesErrorFree ==
    \A i \in 1..Len(JvmArgs) : \A j \in 1..Len(JvmArgs[i].rules) :
        java_rule_passes(host, JvmArgs[i].rules[j]) # "panic"

\* C2: a rule-guarded argument is included iff each of its rules passes:
\* when every rule evaluates without error the call returns, and the
\* argument's token is its substituted value if all its rules pass (an
\* empty rule list included) and nothing otherwise; for game and jvm rules.
C2_RuleListIsConjunction ==
    /\ (minecraft_args.state # "uncalled" /\ manifest.version >= 3
            /\ GameRulesErrorFree) =>
          /\ minecraft_args.state = "ok"
          /\ \A i \in 1..Len(GameArgs) :
                GameArgs[i].class =>
                    minecraft_args.tokens[i] =
                        IF EachGameRulePasses(GameArgs[i])
                            THEN GameValue(launcher, GameArgs[i].value)
                        ELSE <<>>
    /\ (jvm_args.state # "uncalled" /\ manifest.version >= 3
            /\ JvmRulesErrorFree) =>
          /\ jvm_args.state = "ok"
          /\ \A i \in 1..Len(JvmArgs) :
                JvmArgs[i].class =>
                    jvm_args.tokens[i] =
                        IF EachJvmRulePasses(JvmArgs[i])
                            THEN JvmValue(launcher, JvmArgs[i].value)
                        ELSE <<>>

\* C2 witness: a game argument guarded by [pass, fail] was omitted
C2_Witness ==
    /\ minecraft_args.state = "ok"
    /\ Len(GameArgs) = 1
    /\ Len(GameArgs[1].rules) = 2
    /\ minecraft_rule_passes(launcher, GameArgs[1].rules[1]) = "true"
    /\ minecraft_rule_passes(launcher, GameArgs[1].rules[2]) = "false"
    /\ minecraft_args.tokens = << <<>> >>

\* the fact of the launch context a feature key is compared with
Fact(l, key) ==
    CASE key = "is_demo_user" -> l.is_demo_user
      [] key = "has_quick_plays_support" -> l.quickplay # None
      [] key = "is_quick_play_singleplayer" -> l.quickplay = Some("Singleplayer")
      [] key = "is_quick_play_multiplayer" -> l.quickplay = Some("Multiplayer")
      [] key = "is_quick_play_realms" -> l.quickplay = Some("Realms")

DemoAndQuickplayKeys ==
    {"is_demo_user", "has_quick_plays_support", "is_quick_play_singleplayer",
     "is_quick_play_multiplayer", "is_quick_play_realms"}

\* C3: for an Allow game rule minecraft_rule_passes returns, and returns
\* true iff every specified key among is_demo_user, has_quick_plays_support
\* and is_quick_play_singleplayer / _multiplayer / _realms equals the fact
\* derived from the launcher; a rule with no feature keys passes.
C3_FeaturesEqualFacts ==
    (pc = "minecraft_rule_passes" /\ passes # "uncalled"
        /\ game_rule.action = "allow") =>
        /\ passes \in {"true", "false"}
        /\ passes = "true" <=>
              \A key \in DemoAndQuickplayKeys :
                  game_rule.features[key] # None =>
                      game_rule.features[key][1] = Fact(launcher, key)
        /\ game_rule.features = NoFeatures => passes = "true"

\* C3 witness: with quickplay = Singleplayer, a rule requiring
\* is_quick_play_multiplayer = true failed
C3_Witness ==
    /\ pc = "minecraft_rule_passes"
    /\ launcher.quickplay = Some("Singleplayer")
    /\ game_rule = Allow([NoFeatures EXCEPT !.is_quick_play_multiplayer = Some(TRUE)])
    /\ passes = "false"

\* whether a specified os name, arch or version matches the host; a version
\* is compared only under the name windows, where it has to be the
\* Windows-10 pattern on a host that is Windows 10 or later
NameMatches(name, h) ==
    \/ name = "windows" /\ h.target_os = "windows"
    \/ name = "osx" /\ h.target_os = "macos"
    \/ name = "linux" /\ h.target_os = "linux"
ArchMatches(arch, h) == arch = h.target_arch
VersionMatches(os, h) ==
    os.name = Some("windows") =>
        os.version[1] = Windows10Pattern /\ h.IsWindows10OrGreater = Some(TRUE)

EverySubFieldMatches(os, h) ==
    /\ os.name # None => NameMatches(os.name[1], h)
    /\ os.arch # None => ArchMatches(os.arch[1], h)
    /\ os.version # None => VersionMatches(os, h)

\* C4: for an Allow jvm rule java_rule_passes returns true when the rule has
\* no os, and otherwise, whenever it returns, returns true iff every
\* specified sub-field of os matches the host; on a Linux x86_64 host
\* {name: osx}, {name: windows} and {arch: x86} fail and {name: linux} passes.
C4_OsSubFieldsMatch ==
    (pc = "java_rule_passes" /\ passes # "uncalled" /\ jvm_rule.action = "allow") =>
        /\ jvm_rule.os = None => passes = "true"
        /\ (jvm_rule.os # None /\ passes \in {"true", "false"}) =>
              (passes = "true" <=> EverySubFieldMatches(jvm_rule.os[1], host))
        /\ host = LinuxHost =>
              /\ jvm_rule = AllowOs([AnyOs EXCEPT !.name = Some("osx")])
                    => passes = "false"
              /\ jvm_rule = AllowOs([AnyOs EXCEPT !.name = Some("linux")])
                    => passes = "true"
              /\ jvm_rule = AllowOs([AnyOs EXCEPT !.name = Some("windows")])
                    => passes = "false"
              /\ jvm_rule = AllowOs([AnyOs EXCEPT !.arch = Some("x86")])
                    => passes = "false"

\* C4 witness: on a Linux x86_64 host the rule {os: {name: osx}} failed
C4_Witness ==
    /\ pc = "java_rule_passes"
    /\ host = LinuxHost
    /\ jvm_rule = AllowOs([AnyOs EXCEPT !.name = Some("osx")])
    /\ passes = "false"

\* whether a call evaluates a Disallow rule of the game (jvm) argument list:
\* the rule is reached when the rules before it in its list all pass
GameDisallowEvaluated ==
    \E i \in 1..Len(GameArgs) : \E j \in 1..Len(GameArgs[i].rules) :
        /\ GameArgs[i].rules[j].action = "disallow"
        /\ \A k \in 1..(j - 1) :
              minecraft_rule_passes(launcher, GameArgs[i].rules[k]) = "true"
JvmDisallowEvaluated ==
    \E i \in 1..Len(JvmArgs) : \E j \in 1..Len(JvmArgs[i].rules) :
        /\ JvmArgs[i].rules[j].action = "disallow"
        /\ \A k \in 1..(j - 1) :
              java_rule_passes(host, JvmArgs[i].rules[k]) = "true"

\* C8: a Disallow rule never evaluates to a boolean: minecraft_rule_passes
\* and java_rule_passes end in a fatal error for every Disallow rule and
\* context, and a call of parse_minecraft_args or parse_jvm_args that
\* evaluates a Disallow rule fails instead of returning a line.
C8_DisallowIsFatal ==
    /\ (pc = "minecraft_rule_passes" /\ passes # "uncalled"
            /\ game_rule.action = "disallow") => passes = "panic"
    /\ (pc = "java_rule_passes" /\ passes # "uncalled"
            /\ jvm_rule.action = "disallow") => passes = "panic"
    /\ (minecraft_args.state # "uncalled" /\ manifest.version >= 3
            /\ GameDisallowEvaluated) => minecraft_args.state = "panic"
    /\ (jvm_args.state # "uncalled" /\ manifest.version >= 3
            /\ JvmDisallowEvaluated) => jvm_args.state = "panic"

\* C8 witness: a game argument guarded by [passing rule, Disallow rule] made
\* parse_minecraft_args fail
C8_Witness ==
    /\ minecraft_args.state = "panic"
    /\ Len(GameArgs) = 1
    /\ Len(GameArgs[1].rules) = 2
    /\ minecraft_rule_passes(launcher, GameArgs[1].rules[1]) = "true"
    /\ GameArgs[1].rules[2].action = "disallow"

\* the os names and archs java_rule_passes has an arm for
KnownNames == {"windows", "osx", "linux"}
KnownArchs == {"x86"}

\* C9: an Allow jvm rule whose os carries a name outside {windows, osx,
\* linux} or an arch outside the known set always ends in a fatal error,
\* on every host and whatever the other sub-fields are.
C9_UnknownNameOrArchIsFatal ==
    (pc = "java_rule_passes" /\ passes # "uncalled" /\ jvm_rule.action = "allow"
        /\ jvm_rule.os # None
        /\ \/ jvm_rule.os[1].name # None /\ jvm_rule.os[1].name[1] \notin KnownNames
           \/ jvm_rule.os[1].arch # None /\ jvm_rule.os[1].arch[1] \notin KnownArchs)
        => passes = "panic"

\* C10: for an Allow jvm rule with os.name = windows (and no arch, the
\* sub-field C4 and C9 are about): with the Windows-10 pattern as version
\* the rule passes iff the host is Windows 10 or later, with any other
\* version literal the call ends in a fatal error on every host, and with
\* no version the rule passes iff the host is Windows.
C10_WindowsVersion ==
    (pc = "java_rule_passes" /\ passes # "uncalled" /\ jvm_rule.action = "allow"
        /\ jvm_rule.os # None /\ jvm_rule.os[1].name = Some("windows")
        /\ jvm_rule.os[1].arch = None) =>
        LET version == jvm_rule.os[1].version IN
        /\ version = Some(Windows10Pattern) =>
              (passes = "true" <=>
                  host.target_os = "windows" /\ host.IsWindows10OrGreater = Some(TRUE))
        /\ (version # None /\ version # Some(Windows10Pattern)) => passes = "panic"
        /\ version = None => (passes = "true" <=> host.target_os = "windows")

\* whether a string holds one of the documented game placeholders
HoldsGamePlaceholder(str) == \E i \in 1..Len(str) : str[i] \in GamePlaceholders

\* whether none of the values the launcher substitutes holds a placeholder
ValuesHoldNoPlaceholder(l) ==
    \A str \in {l.username, l.version_name, l.id, l.access_token,
                to_str_or_default(l.game_directory),
                to_str_or_default(l.assets_directory)} :
        ~HoldsGamePlaceholder(str)

\* C5: for a structured manifest, the line parse_minecraft_args returns holds
\* none of the documented game placeholders, bare strings included, whenever
\* the substituted values hold none.
C5_NoGamePlaceholderLeft ==
    (minecraft_args.state = "ok" /\ manifest.version >= 3
        /\ ValuesHoldNoPlaceholder(launcher)) =>
        ~HoldsGamePlaceholder(minecraft_args.line)

\* whether a game (jvm) argument is included: a bare string, or a guarded
\* argument whose rules all pass
GameIncluded(arg) == arg.class => EachGameRulePasses(arg)
JvmIncluded(arg) == arg.class => EachJvmRulePasses(arg)

RECURSIVE Kept(_, _)
\* the tokens whose flag is set, in order
Kept(flags, tokens) ==
    IF tokens = <<>> THEN <<>>
    ELSE (IF Head(flags) THEN <<Head(tokens)>> ELSE <<>>)
             \o Kept(Tail(flags), Tail(tokens))

\* C6: an argument that is filtered out contributes nothing, not even a
\* separator: the line parse_minecraft_args (parse_jvm_args) returns is the
\* single-space join of the tokens of the included arguments only.
C6_OmittedLeavesNoSeparator ==
    /\ (minecraft_args.state = "ok" /\ manifest.version >= 3) =>
          minecraft_args.line =
              Join(Kept([i \in 1..Len(GameArgs) |-> GameIncluded(GameArgs[i])],
                        minecraft_args.tokens), <<" ">>)
    /\ (jvm_args.state = "ok" /\ manifest.version >= 3) =>
          jvm_args.line =
              Join(Kept([i \in 1..Len(JvmArgs) |-> JvmIncluded(JvmArgs[i])],
                        jvm_args.tokens), <<" ">>)

\* C7: for a manifest whose get_arguments() is the legacy string,
\* parse_minecraft_args returns that string with the game placeholders
\* substituted, the same for every demo flag and quickplay selection, and
\* parse_jvm_args returns the empty string.
C7_LegacyManifest ==
    ~get_arguments(manifest).structured =>
        /\ minecraft_args.state # "uncalled" =>
              /\ minecraft_args.state = "ok"
              /\ minecraft_args.line =
                    parse_minecraft_arg_str(
                        [launcher EXCEPT !.is_demo_user = FALSE, !.quickplay = None],
                        manifest.minecraft_arguments)
        /\ jvm_args.state # "uncalled" => jvm_args = Returned(<<>>, <<>>)

\* C7 witness: "--username ${auth_player_name}" of a legacy manifest resolved
\* to "--username Steve" for a demo user with a quickplay selection
C7_Witness ==
    /\ manifest.version = 1
    /\ manifest.minecraft_arguments = <<"--username", " ", "${auth_player_name}">>
    /\ launcher.is_demo_user
    /\ launcher.quickplay = Some("Realms")
    /\ minecraft_args.line = <<"--username", " ", "Steve">>

\* C11: custom resolution is one of the facts an Allow game rule is compared
\* with: a rule that specifies has_custom_resolution = b passes only if (a
\* custom resolution was requested) = b, and with no custom resolution a
\* game argument guarded by has_custom_resolution = true is omitted.
C11_CustomResolutionIsAFact ==
    /\ (pc = "minecraft_rule_passes" /\ passes = "true"
            /\ game_rule.action = "allow"
            /\ game_rule.features.has_custom_resolution # None) =>
          game_rule.features.has_custom_resolution[1]
              = (launcher.custom_resolution # None)
    /\ (minecraft_args.state = "ok" /\ manifest.version >= 3
            /\ launcher.custom_resolution = None) =>
          \A i \in 1..Len(GameArgs) :
              (/\ GameArgs[i].class
               /\ \E j \in 1..Len(GameArgs[i].rules) :
                     /\ GameArgs[i].rules[j].action = "allow"
                     /\ GameArgs[i].rules[j].features.has_custom_resolution
                            = Some(TRUE))
                  => minecraft_args.tokens[i] = <<>>

\* whether a string holds one of the documented jvm placeholders
HoldsJvmPlaceholder(str) == \E i \in 1..Len(str) : str[i] \in JvmPlaceholders

\* C12: for a structured manifest, the line parse_jvm_args returns holds none
\* of ${natives_directory}, ${launcher_name}, ${launcher_version} and
\* ${classpath}, in bare and in rule-guarded arguments, whenever the
\* substituted values hold none.
C12_NoJvmPlaceholderLeft ==
    (jvm_args.state = "ok" /\ manifest.version >= 3
        /\ ~HoldsJvmPlaceholder(to_str_or_default(launcher.libraries_directory))) =>
        ~HoldsJvmPlaceholder(jvm_args.line)

RECURSIVE Flatten(_)
\* the strings of a sequence, one after the other
Flatten(strs) == IF strs = <<>> THEN <<>> ELSE Head(strs) \o Flatten(Tail(strs))

\* a string without its single-space atoms
NoSpaces(str) == SelectSeq(str, LAMBDA a : a # " ")

RECURSIVE Spaced(_)
\* the strings of a sequence with one space before each but the first
Spaced(strs) ==
    IF strs = <<>> THEN <<>>
    ELSE IF Len(strs) = 1 THEN strs[1]
    ELSE Spaced(SubSeq(strs, 1, Len(strs) - 1)) \o <<" ">> \o strs[Len(strs)]

\* the strings a game (jvm) argument stands for, in array order: the bare
\* string as the call emits it, the strings of a guarded value substituted
GameArgStrings(arg) ==
    IF arg.class
        THEN [k \in 1..Len(arg.value.strs) |->
                 parse_minecraft_arg_str(launcher, arg.value.strs[k])]
    ELSE <<GameToken(launcher, arg)>>
JvmArgStrings(arg) ==
    [k \in 1..Len(arg.value.strs) |-> parse_java_arg_str(launcher, arg.value.strs[k])]

\* the text of the included game (jvm) arguments, in manifest order
IncludedGameText ==
    Flatten([i \in 1..Len(GameArgs) |->
                IF GameIncluded(GameArgs[i]) THEN Flatten(GameArgStrings(GameArgs[i]))
                ELSE <<>>])
IncludedJvmText ==
    Flatten([i \in 1..Len(JvmArgs) |->
                IF JvmIncluded(JvmArgs[i]) THEN Flatten(JvmArgStrings(JvmArgs[i]))
                ELSE <<>>])

\* C13: the game and jvm lines keep the manifest's order: apart from the
\* separators, the line is the text of the included arguments in manifest
\* order, nothing reordered, dropped or merged (an argument listed twice is
\* there twice), and an included array value stands in place as its strings,
\* in array order, with one space between each two.
C13_ManifestOrderKept ==
    /\ (minecraft_args.state = "ok" /\ manifest.version >= 3) =>
          /\ NoSpaces(minecraft_args.line) = NoSpaces(IncludedGameText)
          /\ \A i \in 1..Len(GameArgs) :
                (GameArgs[i].class /\ GameIncluded(GameArgs[i])) =>
                    minecraft_args.tokens[i] = Spaced(GameArgStrings(GameArgs[i]))
    /\ (jvm_args.state = "ok" /\ manifest.version >= 3) =>
          /\ NoSpaces(jvm_args.line) = NoSpaces(IncludedJvmText)
          /\ \A i \in 1..Len(JvmArgs) :
                (JvmArgs[i].class /\ JvmIncluded(JvmArgs[i])) =>
                    jvm_args.tokens[i] = Spaced(JvmArgStrings(JvmArgs[i]))

\* C13 witness: with a custom resolution, ["--username", the --width/--height
\* array, "--username"] resolved to "--username --width 854 --height 480
\* --username"
C13_Witness ==
    /\ minecraft_args.state = "ok"
    /\ Len(GameArgs) = 3
    /\ GameArgs[1] = Bare(<<"--username">>)
    /\ GameArgs[2].value.array
    /\ GameArgs[3] = Bare(<<"--username">>)
    /\ minecraft_args.line =
          <<"--username", " ", "--width", " ", "854", " ", "--height", " ",
            "480", " ", "--username">>

\* the value the documented table gives a placeholder; any other atom
\* stands for itself
ValueOf(l, atom) ==
    CASE atom = "${auth_player_name}" -> l.username
      [] atom = "${version_name}" -> SanitizedVersionName(l)
      [] atom = "${game_directory}" -> to_str_or_default(l.game_directory)
      [] atom = "${assets_root}" -> to_str_or_default(l.assets_directory)
      [] atom = "${assets_index_name}" -> SanitizedVersionName(l)
      [] atom = "${auth_uuid}" -> l.id
      [] atom = "${auth_access_token}" -> l.access_token
      [] atom = "${user_type}" -> <<"msa">>
      [] atom = "${version_type}" ->
            IF l.is_snapshot THEN <<"snapshot">> ELSE <<"release">>
      [] atom = "${resolution_width}" ->
            IF l.custom_resolution = None THEN <<>>
            ELSE <<ToString(l.custom_resolution[1].width)>>
      [] atom = "${resolution_height}" ->
            IF l.custom_resolution = None THEN <<>>
            ELSE <<ToString(l.custom_resolution[1].height)>>
      [] OTHER -> <<atom>>

\* the template with every placeholder token of it replaced at once
Simultaneous(l, template) ==
    Flatten([i \in 1..Len(template) |-> ValueOf(l, template[i])])

\* the atoms of a template outside its placeholder tokens
Literals(template) == SelectSeq(template, LAMBDA a : a \notin GamePlaceholders)

RECURSIVE IsSubsequence(_, _)
\* whether the atoms of a occur in b, in the same order
IsSubsequence(a, b) ==
    IF a = <<>> THEN TRUE
    ELSE IF b = <<>> THEN FALSE
    ELSE IF Head(a) = Head(b) THEN IsSubsequence(Tail(a), Tail(b))
    ELSE IsSubsequence(a, Tail(b))

\* whether the call resolves one template: the legacy string, or the string
\* of a single argument with no rules
OneTemplate ==
    /\ pc = "parse_minecraft_args"
    /\ minecraft_args.state # "uncalled"
    /\ \/ manifest.version <= 2
       \/ /\ Len(GameArgs) = 1
          /\ GameArgs[1].class
          /\ GameArgs[1].rules = <<>>
          /\ ~GameArgs[1].value.array
Template ==
    IF manifest.version <= 2 THEN manifest.minecraft_arguments
    ELSE GameArgs[1].value.strs[1]

\* C14: with no custom resolution the resolution of a template does not
\* fail, the line holds neither ${resolution_width} nor ${resolution_height},
\* every atom of the template outside the placeholder tokens is in the line,
\* in the same order, and (when no substituted value holds a placeholder)
\* the line is the template with the two tokens replaced by the empty
\* string and every other placeholder by its value.
C14_AbsentResolutionIsEmpty ==
    (OneTemplate /\ launcher.custom_resolution = None) =>
        /\ minecraft_args.state = "ok"
        /\ \A i \in 1..Len(minecraft_args.line) :
              minecraft_args.line[i]
                  \notin {"${resolution_width}", "${resolution_height}"}
        /\ IsSubsequence(Literals(Template), minecraft_args.line)
        /\ ValuesHoldNoPlaceholder(launcher) =>
              minecraft_args.line = Simultaneous(launcher, Template)

\* C14 witness: with no custom resolution, a legacy string that ends in
\* "--width ${resolution_width} --height ${resolution_height}" resolved to a
\* line that ends in "--width  --height "
C14_Witness ==
    /\ OneTemplate
    /\ manifest.version = 2
    /\ launcher.custom_resolution = None
    /\ Len(Template) >= 7
    /\ SubSeq(Template, Len(Template) - 6, Len(Template)) =
          <<"--width", " ", "${resolution_width}", " ", "--height", " ",
            "${resolution_height}">>
    /\ Len(minecraft_args.line) >= 5
    /\ SubSeq(minecraft_args.line, Len(minecraft_args.line) - 4,
              Len(minecraft_args.line)) =
          <<"--width", " ", " ", "--height", " ">>

\* whether some schema accepts a document
SomeSchemaAccepts(d) == \E k \in 1..6 : Accepts(k, d)

\* C15: Manifest::from_value returns an error iff none of the schemas V1 ..
\* V6 accepts the document, and Ok otherwise; Version::download, handed a
\* JSON document, returns the manifest of an accepting schema when there is
\* one and the CannotParse error when there is none, never a manifest in
\* place of the failure.
C15_ErrIffNoSchemaAccepts ==
    /\ (pc = "from_value" /\ parsed # NotParsed) =>
          /\ parsed.state \in {"ok", "err"}
          /\ parsed.state = "err" <=> ~SomeSchemaAccepts(value)
    /\ (pc = "download" /\ parsed # NotParsed /\ response = "json") =>
          IF SomeSchemaAccepts(value)
              THEN parsed.state = "ok" /\ Accepts(parsed.version, value)
          ELSE parsed = CannotParse

\* C15 witness: Version::download got a JSON document no schema accepts
\* and returned CannotParse
C15_Witness ==
    /\ pc = "download"
    /\ response = "json"
    /\ ~SomeSchemaAccepts(value)
    /\ parsed = CannotParse

\* the schemas that accept a document
AcceptingSchemas(d) == {k \in 1..6 : Accepts(k, d)}

\* C16: a document Manifest::from_value resolves is accepted by exactly one
\* of the schemas V1 .. V6, so a resolver that tries them in another order
\* resolves it to the same variant.
C16_ExactlyOneSchemaAccepts ==
    (pc = "from_value" /\ parsed.state = "ok") =>
        /\ Cardinality(AcceptingSchemas(value)) = 1
        /\ from_value_oldest_first(value) = parsed

\* C17: serialization is a lossless round trip: for every document
\* from_value accepts, from_value of the string Manifest::serialize returns
\* for the parsed manifest succeeds, gives the same generation and gives a
\* manifest equal to the parsed one field for field.
C17_SerializeRoundTrip ==
    reparsed # NotParsed =>
        /\ reparsed.state = "ok"
        /\ reparsed.version = parsed.version
        /\ Variant(reparsed.version, serialized.document)
              = Variant(parsed.version, value)

\* C17 witness: a document that carries minecraftArguments and
\* downloads.windows_server, for which V6Manifest has no field, was
\* resolved to V6, written without the two and resolved to V6 again
C17_Witness ==
    /\ parsed = Ok(6)
    /\ "minecraftArguments" \in value.keys
    /\ "windows_server" \in value.downloads
    /\ serialized.state = "ok"
    /\ "minecraftArguments" \notin serialized.document.keys
    /\ "windows_server" \notin serialized.document.downloads
    /\ reparsed = Ok(6)

Reorderings(rules) ==
    {[i \in 1..Len(rules) |-> rules[f[i]]] :
        f \in {g \in [1..Len(rules) -> 1..Len(rules)] :
                  \A i, j \in 1..Len(rules) : g[i] = g[j] => i = j}}

\* the outcome of resolving an argument: included, omitted or a fatal error
GameOutcome(l, arg) ==
    LET passed == GameClassPasses(l, arg) IN
    IF passed = "true" THEN "included"
    ELSE IF passed = "false" THEN "omitted"
    ELSE "fatal"
JvmOutcome(h, arg) ==
    LET passed == JvmClassPasses(h, arg) IN
    IF passed = "true" THEN "included"
    ELSE IF passed = "false" THEN "omitted"
    ELSE "fatal"

\* the outcome the call had for its only argument
CallOutcome(args) ==
    IF args.state = "panic" THEN "fatal"
    ELSE IF args.tokens[1] = <<>> THEN "omitted"
    ELSE "included"

\* C19: the order of the rules of a list does not affect the outcome: the
\* outcome the call had for an argument guarded by a rule list (included,
\* omitted or a fatal error) is the outcome for every permutation of the
\* list, for game and for jvm rules.
C19_RuleOrderIrrelevant ==
    /\ (minecraft_args.state # "uncalled" /\ manifest.version >= 3
            /\ Len(GameArgs) = 1 /\ GameArgs[1].class) =>
          \A rules \in Reorderings(GameArgs[1].rules) :
              GameOutcome(launcher, Class(rules, GameArgs[1].value))
                  = CallOutcome(minecraft_args)
    /\ (jvm_args.state # "uncalled" /\ manifest.version >= 3
            /\ Len(JvmArgs) = 1 /\ JvmArgs[1].class) =>
          \A rules \in Reorderings(JvmArgs[1].rules) :
              JvmOutcome(host, Class(rules, JvmArgs[1].value))
                  = CallOutcome(jvm_args)

\* C20: the substitution of parse_minecraft_arg_str is single-pass: the line
\* resolved from a template is the template with each placeholder token of
\* it replaced by its value at once, so that a value that holds the text of
\* a placeholder (a player name "${auth_access_token}") stays as it is.
C20_SinglePassSubstitution ==
    (OneTemplate /\ minecraft_args.state = "ok") =>
        minecraft_args.line = Simultaneous(launcher, Template)

(***************************************************************************)
(* C21, C22: the authentication calls, by the requests they have sent.     *)
(***************************************************************************)
\* the urls of the requests get_minecraft_token has sent, in the order sent
MinecraftTokenUrls ==
    [i \in 1..Len(SelectSeq(requests, LAMBDA r : r.url # TOKEN_URL)) |->
        SelectSeq(requests, LAMBDA r : r.url # TOKEN_URL)[i].url]

\* the three steps of get_minecraft_token
MinecraftTokenSteps ==
    <<XboxLiveRequest("").url, XstsRequest("").url, MinecraftRequest("", "").url>>

\* both responses arrived, each carries an xui claim, and the user hashes of
\* the two are equal
UserHashesAgree ==
    /\ xbox_live_response.state = "ok"
    /\ xsts_response.state = "ok"
    /\ xbox_live_response.xui # <<>>
    /\ xsts_response.xui # <<>>
    /\ xsts_response.xui[1] = xbox_live_response.xui[1]

\* C21: get_minecraft_token sends its requests in the order Xbox Live
\* authenticate, XSTS authorize, Minecraft login_with_xbox, each only after
\* the response to the one before arrived; the login request is sent only
\* when both responses carry an xui claim and the two user hashes are equal,
\* and a call that returned without that returned XboxLiveError and sent no
\* login request.
C21_LoginOnlyAfterMatchingUserHashes ==
    /\ MinecraftTokenUrls = SubSeq(MinecraftTokenSteps, 1, Len(MinecraftTokenUrls))
    /\ Len(MinecraftTokenUrls) >= 1 => ms_token.state = "ok"
    /\ Len(MinecraftTokenUrls) >= 2 => xbox_live_response.state = "ok"
    /\ Len(MinecraftTokenUrls) >= 3 => UserHashesAgree
    /\ (minecraft_token # NotCalled /\ ~UserHashesAgree) =>
          /\ minecraft_token = XboxLiveError
          /\ Len(MinecraftTokenUrls) < 3

\* both responses carry xui claims, the first user hashes differ, and the
\* call returned
C21_Witness ==
    /\ xbox_live_response.state = "ok"
    /\ xsts_response.state = "ok"
    /\ xbox_live_response.xui # <<>>
    /\ xsts_response.xui # <<>>
    /\ xsts_response.xui[1] # xbox_live_response.xui[1]
    /\ minecraft_token = XboxLiveError
    /\ Len(MinecraftTokenUrls) = 2

\* the code-for-token exchange requests sent so far
ExchangeRequests == SelectSeq(requests, LAMBDA r : r.url = TOKEN_URL)

\* C22: get_ms_access_token compares the state that came with the
\* authorization code to the secret of the CSRF token before anything else:
\* when they differ no request at all is sent and the call returns
\* OauthError; an exchange request is sent only when they are equal.
C22_StateCheckedBeforeExchange ==
    /\ ExchangeRequests # <<>> => oauth_code.state = csrf
    /\ oauth_code.state # csrf =>
          /\ requests = <<>>
          /\ ms_token \in {NotCalled, OauthError}
          /\ auth_pc = "idle"

\* the states differ and the call returned
C22_Witness ==
    /\ oauth_code.state # csrf
    /\ ms_token = OauthError
    /\ requests = <<>>

(***************************************************************************)
(* C23: the placeholders whose value is fixed by the version name, the     *)
(* account type and the is_snapshot flag.                                  *)
(***************************************************************************)
FixedValuePlaceholders ==
    {"${version_name}", "${assets_index_name}", "${user_type}", "${version_type}"}

\* the version name with each space and each colon turned into "_"
Underscored(version_name) ==
    [i \in 1..Len(version_name) |->
        IF version_name[i] \in {" ", ":"} THEN "_" ELSE version_name[i]]

\* the documented value of a fixed-value placeholder
FixedValue(l, atom) ==
    CASE atom \in {"${version_name}", "${assets_index_name}"} ->
            Underscored(l.version_name)
      [] atom = "${user_type}" -> <<"msa">>
      [] atom = "${version_type}" ->
            IF l.is_snapshot THEN <<"snapshot">> ELSE <<"release">>

\* C23: wherever a template holds ${version_name} or ${assets_index_name}
\* the line holds the version name with every space and colon turned into
\* "_", wherever it holds ${user_type} the line holds "msa", and wherever it
\* holds ${version_type} the line holds "snapshot" when is_snapshot is set
\* and "release" when it is not: the line is what the text before the token
\* resolves to, then that value, then what the text after it resolves to.
C23_FixedValuePlaceholders ==
    (OneTemplate /\ minecraft_args.state = "ok") =>
        \A i \in 1..Len(Template) :
            Template[i] \in FixedValuePlaceholders =>
                minecraft_args.line =
                    parse_minecraft_arg_str(launcher, SubSeq(Template, 1, i - 1))
                    \o FixedValue(launcher, Template[i])
                    \o parse_minecraft_arg_str(
                           launcher, SubSeq(Template, i + 1, Len(Template)))

\* C23 witness: the version "1.14 Pre-Release:2", a snapshot, resolved from
\* a template that holds the four tokens: the line holds
\* "--version 1.14_Pre-Release_2" and "--userType msa --versionType snapshot"
C23_Witness ==
    /\ OneTemplate
    /\ minecraft_args.state = "ok"
    /\ launcher.version_name = <<"1.14", " ", "Pre-Release", ":", "2">>
    /\ launcher.is_snapshot
    /\ \A p \in FixedValuePlaceholders :
          \E i \in 1..Len(Template) : Template[i] = p
    /\ \E j \in 1..Len(minecraft_args.line) :
          /\ j + 6 <= Len(minecraft_args.line)
          /\ SubSeq(minecraft_args.line, j, j + 6) =
                <<"--version", " ", "1.14", "_", "Pre-Release", "_", "2">>
    /\ \E j \in 1..Len(minecraft_args.line) :
          /\ j + 6 <= Len(minecraft_args.line)
          /\ SubSeq(minecraft_args.line, j, j + 6) =
                <<"--userType", " ", "msa", " ", "--versionType", " ",
                  "snapshot">>

====
